---- MODULE Spec2Model ----
(***************************************************************************)
(* Model of the AttentionSegmentation pipeline:                            *)
(*   - WeakConll2003DatasetReader (reader/weak_conll_reader.py):           *)
(*     construction, _read (grouping, column parsing, windowing, fields,   *)
(*     post-read pass);                                                    *)
(*   - BaseClassifier (model/gumbel_softmax_classifier.py): construction,  *)
(*     forward, decode.                                                    *)
(* Strings whose characters matter (tokens, tags) are sequences of         *)
(* one-character strings, so that startswith and re.sub are computed.      *)
(***************************************************************************)
EXTENDS Integers, Sequences, FiniteSets, TLC

VARIABLES
    scenario,    \* "reader" or "model": which object this behaviour drives
    pc,          \* position of the driven object's caller
    err,         \* name of the exception that ended the operation, or NoErr
    params,      \* arguments of WeakConll2003DatasetReader.__init__
    self,        \* the reader's attributes after __init__, or None
    file,        \* the lines of file_path, each line its whitespace-split fields
    pos,         \* 1-based index of the next line groupby will hand out
    instances,   \* the local list `instances` of _read
    origin,      \* for each instance: first line of its sentence and offset ix
    result,      \* what _read returned, or None
    mparams,     \* arguments of BaseClassifier.__init__
    model,       \* the classifier's attributes after __init__, by name
    call,        \* the arguments of the forward or decode call made
    calls,       \* the sub-modules forward invoked, in order, with arguments
    ret          \* what forward or decode returned, or None

vars == <<scenario, pc, err, params, self, file, pos, instances, origin, result,
          mparams, model, call, calls, ret>>

(* ----------------------------- bounds ---------------------------------- *)
MaxLines == 3      \* lines per corpus file
MaxSentLen == 2    \* largest positive max_sentence_length
MaxBatch == 2      \* rows of a decoded batch
MaxSeq == 2        \* padded sequence length of a decoded batch
NumTags == 3       \* label_indexer.get_num_tags()

(* --------------------------- basic values ------------------------------ *)
None == "None"
NoErr == "none"
EmptyFn == [x \in {} |-> x]

Min(a, b) == IF a < b THEN a ELSE b

Digits == {"0", "1", "2", "3", "4", "5", "6", "7", "8", "9"}

\* NUM_TOKEN = "@0@"
NUM_TOKEN == <<"@", "0", "@">>

_VALID_LABELS == {"ner", "pos", "chunk"}

(* --------------------------- string helpers ---------------------------- *)
\* str.startswith
startswith(s, p) == Len(s) >= Len(p) /\ SubSeq(s, 1, Len(p)) = p

\* the rest of s after its leading run of digits
RECURSIVE DropDigits(_)
DropDigits(s) ==
    IF s # <<>> /\ s[1] \in Digits THEN DropDigits(Tail(s)) ELSE s

\* re.sub(r"[0-9]+", NUM_TOKEN, token): every maximal digit run is replaced
RECURSIVE NumSub(_)
NumSub(s) ==
    IF s = <<>> THEN <<>>
    ELSE IF s[1] \in Digits THEN NUM_TOKEN \o NumSub(DropDigits(s))
    ELSE <<s[1]>> \o NumSub(Tail(s))

\* re.sub("I-", "B-", label): every occurrence of "I-" is replaced
RECURSIVE ReSubIB(_)
ReSubIB(s) ==
    IF s = <<>> THEN <<>>
    ELSE IF startswith(s, <<"I", "-">>)
         THEN <<"B", "-">> \o ReSubIB(SubSeq(s, 3, Len(s)))
    ELSE <<s[1]>> \o ReSubIB(Tail(s))

\* str.lower on the letters the corpus uses
LowerChar(c) ==
    CASE c = "U" -> "u"
      [] c = "A" -> "a"
      [] OTHER -> c

Lower(s) == [k \in 1..Len(s) |-> LowerChar(s[k])]

\* Python slice seq[ix : ix + n] with a 0-based start
Slice(seq, ix, n) == SubSeq(seq, ix + 1, Min(ix + n, Len(seq)))

(* ------------------------------ corpus --------------------------------- *)
DOCSTART == <<"-DOCSTART-">>
O == <<"O">>
I_PER == <<"I", "-", "P">>
B_PER == <<"B", "-", "P">>
I_NP == <<"I", "-", "N">>
NNP == <<"N", "P">>
VBZ == <<"V", "Z">>

BlankLine == <<>>
DocLine == <<DOCSTART, <<"-", "X", "-">>, O, O>>
Line4A == << <<"U", "2">>, NNP, I_NP, I_PER >>
Line4B == << <<"a">>, VBZ, I_NP, O >>
Line3 == << <<"7", "b", "9">>, NNP, I_PER >>
Line2 == << <<"a">>, VBZ >>
Line5 == << <<"a">>, VBZ, I_NP, I_PER, <<"x">> >>

LineKinds == {BlankLine, DocLine, Line4A, Line4B, Line3, Line2, Line5}

Files == UNION {[1..n -> LineKinds] : n \in 0..MaxLines}

\* constants.<mask_set>: the vocabulary whose tokens get text_id 1
MaskVocab == {<<"a">>}

(* ----------------------------- _is_divider ----------------------------- *)
_is_divider(line) ==
    IF line = <<>> THEN TRUE
    ELSE IF line[1] = DOCSTART THEN TRUE ELSE FALSE

\* itertools.groupby(data_file, _is_divider): last line of the group at i
RECURSIVE GroupEnd(_, _)
GroupEnd(f, i) ==
    IF i < Len(f) /\ _is_divider(f[i + 1]) = _is_divider(f[i])
    THEN GroupEnd(f, i + 1) ELSE i

(* ------------------------------- zip ----------------------------------- *)
RECURSIVE MinLen(_)
MinLen(lines) ==
    IF Len(lines) = 1 THEN Len(lines[1])
    ELSE Min(Len(lines[1]), MinLen(Tail(lines)))

\* [list(field) for field in zip(*fields)]: zip stops at the shortest line
Unzip(lines) ==
    [k \in 1..MinLen(lines) |-> [r \in 1..Len(lines) |-> lines[r][k]]]

(* --------------------------- external fields --------------------------- *)
\* chunk_tags = None (line 132) when the sentence has 3 columns.  A column of
\* a sentence is never empty (a sentence has at least one line, a window at
\* least one token), so the empty sequence stands for None.
NoColumn == <<>>

\* SequenceLabelField(labels, sequence_field): what the constructor raises.
\* A labels argument of None has no len(); a length that differs from the
\* sequence's is a ConfigurationError.
SequenceLabelFieldError(labels, sequence) ==
    IF labels = NoColumn THEN "TypeError"
    ELSE IF Len(labels) # Len(sequence) THEN "ConfigurationError"
    ELSE NoErr

\* LabelIndexer.index(tags, as_label_field=True): the entity types that occur
\* in the tags, the prefix ("B-", "I-") dropped and "O" ignored
LabelIndexerIndex(tags) ==
    {SubSeq(tags[k], 3, Len(tags[k])) : k \in {j \in 1..Len(tags) : tags[j] # O}}

(* --------------------------- reader: __init__ -------------------------- *)
TagLabels == {"ner", "pos", "chunk", None, "tok"}
CodingSchemes == {"IOB1", "BIOUL", "BIO"}
SentenceLengths == {-1} \cup (1..MaxSentLen)

\* the optional arguments, as the configurations the readers are built with
Extras ==
    {[feature_labels |-> {}, convert_numbers |-> FALSE,
      label_indexer |-> None, mask_set |-> None],
     [feature_labels |-> {}, convert_numbers |-> TRUE,
      label_indexer |-> "indexer", mask_set |-> None],
     [feature_labels |-> {"pos", "chunk", "ner"}, convert_numbers |-> TRUE,
      label_indexer |-> "indexer", mask_set |-> "STOPWORDS"],
     [feature_labels |-> {"lemma"}, convert_numbers |-> FALSE,
      label_indexer |-> None, mask_set |-> None]}

ParamSpace ==
    {[tag_label |-> t,
      feature_labels |-> e.feature_labels,
      coding_scheme |-> c,
      convert_numbers |-> e.convert_numbers,
      label_indexer |-> e.label_indexer,
      max_sentence_length |-> l,
      mask_set |-> e.mask_set] :
        t \in TagLabels, c \in CodingSchemes, l \in SentenceLengths,
        e \in Extras}

\* the checks without the one of coding_scheme
InitErrorNoCoding(p) ==
    IF p.tag_label # None /\ p.tag_label \notin _VALID_LABELS
    THEN "ConfigurationError"
    ELSE IF \E label \in p.feature_labels : label \notin _VALID_LABELS
    THEN "ConfigurationError"
    ELSE NoErr

\* the checks of __init__ that raise ConfigurationError
InitError(p) ==
    IF p.tag_label # None /\ p.tag_label \notin _VALID_LABELS
    THEN "ConfigurationError"
    ELSE IF \E label \in p.feature_labels : label \notin _VALID_LABELS
    THEN "ConfigurationError"
    ELSE IF p.coding_scheme \notin {"IOB1", "BIOUL"}
    THEN "ConfigurationError"
    ELSE NoErr

\* the attributes __init__ assigns
InitAttrs(p) ==
    [tag_label |-> p.tag_label,
     feature_labels |-> p.feature_labels,
     coding_scheme |-> p.coding_scheme,
     max_sentence_length |-> p.max_sentence_length,
     label_indexer |-> p.label_indexer,
     convert_numbers |-> p.convert_numbers,
     _mask_set |-> IF p.mask_set # None THEN MaskVocab ELSE {}]

(* ----------------------- reader: one sentence -------------------------- *)
\* lines 157-167: the Token texts and the mask tokens of a sentence
NewTokens(rd, tokens) ==
    [k \in 1..Len(tokens) |->
        IF rd.convert_numbers THEN NumSub(tokens[k]) ELSE tokens[k]]

MaskTokens(rd, tokens) ==
    [k \in 1..Len(tokens) |->
        [text |-> NewTokens(rd, tokens)[k],
         text_id |-> IF Lower(NewTokens(rd, tokens)[k]) \in rd._mask_set
                     THEN 1 ELSE 0]]

\* a step that ignores max_sentence_length
StepsizeWholeSentence(rd, n) == n

\* lines 168-170
Stepsize(rd, n) ==
    IF rd.max_sentence_length > 0 THEN rd.max_sentence_length ELSE n

\* a range that runs up to n inclusive: range(0, n + 1, stepsize)
RangeInclusive(n, stepsize) ==
    [k \in 1..((n + stepsize) \div stepsize) |-> (k - 1) * stepsize]

\* a range that stops before a last, shorter step
RangeWholeSteps(n, stepsize) ==
    [k \in 1..(n \div stepsize) |-> (k - 1) * stepsize]

\* range(0, n, stepsize) as a sequence
Range(n, stepsize) ==
    [k \in 1..((n + stepsize - 1) \div stepsize) |-> (k - 1) * stepsize]

\* a binding that takes the third column as the NER tags whatever the count
ColsThirdIsNer(unz) ==
    [tokens |-> unz[1],
     pos_tags |-> unz[2],
     chunk_tags |-> IF Len(unz) = 4 THEN unz[3] ELSE NoColumn,
     ner_tags |-> unz[3]]

\* The columns a sentence of ncol columns binds (lines 145-151); chunk_tags
\* stays None with 3 columns.
Cols(unz) ==
    [tokens |-> unz[1],
     pos_tags |-> unz[2],
     chunk_tags |-> IF Len(unz) = 4 THEN unz[3] ELSE NoColumn,
     ner_tags |-> unz[Len(unz)]]

Opt(cond, key, val) == IF cond THEN key :> val ELSE EmptyFn

\* lines 172-231 for the window at offset ix: [err, fields]
Window(rd, c, ix, stepsize) ==
    LET sequence == Slice(NewTokens(rd, c.tokens), ix, stepsize)
        attn_mask_seq == Slice(MaskTokens(rd, c.tokens), ix, stepsize)
        coded_chunks == IF c.chunk_tags # NoColumn
                        THEN Slice(c.chunk_tags, ix, stepsize) ELSE NoColumn
        coded_ner == Slice(c.ner_tags, ix, stepsize)
        posErr == IF "pos" \in rd.feature_labels
                  THEN SequenceLabelFieldError(
                           Slice(c.pos_tags, ix, stepsize), sequence)
                  ELSE NoErr
        chunkErr == IF "chunk" \in rd.feature_labels
                    THEN SequenceLabelFieldError(coded_chunks, sequence)
                    ELSE NoErr
        nerErr == IF "ner" \in rd.feature_labels
                  THEN SequenceLabelFieldError(coded_ner, sequence)
                  ELSE NoErr
        tagLabels == CASE rd.tag_label = "ner" -> coded_ner
                       [] rd.tag_label = "pos" -> c.pos_tags
                       [] rd.tag_label = "chunk" -> coded_chunks
                       [] OTHER -> NoColumn
        tagErr == IF rd.tag_label \in {"pos", "chunk"}
                  THEN SequenceLabelFieldError(tagLabels, sequence)
                  ELSE NoErr
        fields ==
            [tokens |-> sequence, attn_mask |-> attn_mask_seq]
            @@ Opt("pos" \in rd.feature_labels, "pos_tags",
                   Slice(c.pos_tags, ix, stepsize))
            @@ Opt("chunk" \in rd.feature_labels, "chunk_tags", coded_chunks)
            @@ Opt("ner" \in rd.feature_labels, "ner_tags", coded_ner)
            @@ Opt(rd.tag_label \in _VALID_LABELS, "tags", tagLabels)
            @@ Opt(rd.label_indexer # None, "labels",
                   LabelIndexerIndex(coded_ner))
    IN  \* iob1_to_bioul is not imported by the module: the call is a NameError
        IF rd.coding_scheme = "BIOUL" THEN [err |-> "NameError", fields |-> EmptyFn]
        ELSE IF posErr # NoErr THEN [err |-> posErr, fields |-> EmptyFn]
        ELSE IF chunkErr # NoErr THEN [err |-> chunkErr, fields |-> EmptyFn]
        ELSE IF nerErr # NoErr THEN [err |-> nerErr, fields |-> EmptyFn]
        ELSE IF tagErr # NoErr THEN [err |-> tagErr, fields |-> EmptyFn]
        ELSE [err |-> NoErr, fields |-> fields]

\* the loop of line 171 over the offsets still to do: [err, insts, offs]
RECURSIVE Windows(_, _, _, _)
Windows(rd, c, offsets, stepsize) ==
    IF offsets = <<>> THEN [err |-> NoErr, insts |-> <<>>, offs |-> <<>>]
    ELSE LET w == Window(rd, c, offsets[1], stepsize)
             rest == Windows(rd, c, Tail(offsets), stepsize)
         IN IF w.err # NoErr
            THEN [err |-> w.err, insts |-> <<>>, offs |-> <<>>]
            ELSE [err |-> rest.err,
                  insts |-> <<w.fields>> \o rest.insts,
                  offs |-> <<offsets[1]>> \o rest.offs]

\* lines 129-231 for the sentence made of `lines`: [err, insts, offs]
Sentence(rd, lines) ==
    LET unzipped_fields == Unzip(lines)
    IN IF Len(unzipped_fields) \notin {3, 4}
       THEN [err |-> "RuntimeError", insts |-> <<>>, offs |-> <<>>]
       ELSE LET c == Cols(unzipped_fields)
                stepsize == Stepsize(rd, Len(unzipped_fields[1]))
            IN Windows(rd, c, Range(Len(c.tokens), stepsize), stepsize)

(* ----------------------- reader: post-read pass ------------------------ *)
\* a pass that inserts the rewritten tag in front instead of replacing
CorrectInsertsTag(rd, fields) ==
    IF startswith(fields.tags[1], <<"I", "-">>)
    THEN [key \in DOMAIN fields |->
             IF key = "tags"
             THEN <<ReSubIB(fields.tags[1])>> \o fields.tags
             ELSE fields[key]]
    ELSE fields

\* a pass that makes no correction
CorrectNothing(rd, fields) == fields

\* lines 237-240 on one instance: the first tag rewritten when it starts
\* with "I-".  The tags list of tag_label "ner" (or "chunk") is the very list
\* object of the ner_tags (chunk_tags) feature field, which changes with it.
Correct(rd, fields) ==
    IF startswith(fields.tags[1], <<"I", "-">>)
    THEN LET labels == [fields.tags EXCEPT ![1] = ReSubIB(fields.tags[1])]
             shared == IF rd.tag_label = "ner" THEN "ner_tags"
                       ELSE IF rd.tag_label = "chunk" THEN "chunk_tags"
                       ELSE "tags"
         IN [key \in DOMAIN fields |->
                IF key \in {"tags", shared} THEN labels ELSE fields[key]]
    ELSE fields

\* lines 234-237: what the checks on one instance raise
PostError(rd, fields) ==
    IF "tags" \notin DOMAIN fields THEN "KeyError"
    ELSE IF Len(fields.tokens) # Len(fields.tags) THEN "AssertionError"
    ELSE IF rd.max_sentence_length > 0
            /\ Len(fields.tokens) > rd.max_sentence_length
    THEN "AssertionError"
    ELSE IF Len(fields.tags) = 0 THEN "IndexError"
    ELSE NoErr

\* lines 233-241: the loop over the instances: [err, insts]
RECURSIVE PostRead(_, _)
PostRead(rd, insts) ==
    IF insts = <<>> THEN [err |-> NoErr, insts |-> <<>>]
    ELSE IF PostError(rd, insts[1]) # NoErr
    THEN [err |-> PostError(rd, insts[1]), insts |-> <<>>]
    ELSE LET rest == PostRead(rd, Tail(insts))
         IN [err |-> rest.err,
             insts |-> IF rest.err # NoErr THEN <<>>
                       ELSE <<Correct(rd, insts[1])>> \o rest.insts]

(* ------------------------------ actions -------------------------------- *)
modelVars == <<mparams, model, call, calls, ret>>
readerVars == <<params, self, file, pos, instances, origin, result>>

\* WeakConll2003DatasetReader(...)
Construct ==
    /\ scenario = "reader" /\ pc = "new"
    /\ IF InitError(params) # NoErr
       THEN /\ pc' = "failed"
            /\ err' = InitError(params)
            /\ self' = self
       ELSE /\ pc' = "ready"
            /\ err' = err
            /\ self' = InitAttrs(params)
    /\ UNCHANGED <<scenario, params, file, pos, instances, origin, result, modelVars>>

\* _read(file_path): open the file, instances = []
ReadOpen ==
    /\ scenario = "reader" /\ pc = "ready"
    /\ \E f \in Files : file' = f
    /\ pc' = "reading"
    /\ pos' = 1
    /\ instances' = <<>>
    /\ origin' = <<>>
    /\ UNCHANGED <<scenario, err, params, self, result, modelVars>>

\* one divider chunk of groupby: ignored
ReadDivider ==
    /\ scenario = "reader" /\ pc = "reading"
    /\ pos <= Len(file)
    /\ _is_divider(file[pos])
    /\ pos' = GroupEnd(file, pos) + 1
    /\ UNCHANGED <<scenario, pc, err, params, self, file, instances, origin, result, modelVars>>

\* one sentence chunk of groupby: lines 129-231
ReadSentence ==
    /\ scenario = "reader" /\ pc = "reading"
    /\ pos <= Len(file)
    /\ ~_is_divider(file[pos])
    /\ LET r == Sentence(self, SubSeq(file, pos, GroupEnd(file, pos)))
       IN IF r.err # NoErr
          THEN /\ pc' = "failed"
               /\ err' = r.err
               /\ UNCHANGED <<pos, instances, origin>>
          ELSE /\ instances' = instances \o r.insts
               /\ origin' = origin \o
                    [k \in 1..Len(r.offs) |-> [sent |-> pos, ix |-> r.offs[k]]]
               /\ pos' = GroupEnd(file, pos) + 1
               /\ UNCHANGED <<pc, err>>
    /\ UNCHANGED <<scenario, params, self, file, result, modelVars>>

\* end of file: the pass of lines 233-240 and the return
ReadReturn ==
    /\ scenario = "reader" /\ pc = "reading"
    /\ pos > Len(file)
    /\ LET r == PostRead(self, instances)
       IN IF r.err # NoErr
          THEN /\ pc' = "failed"
               /\ err' = r.err
               /\ result' = result
          ELSE /\ pc' = "returned"
               /\ err' = err
               /\ result' = r.insts
    /\ UNCHANGED <<scenario, params, self, file, pos, instances, origin, modelVars>>

InitReader ==
    /\ scenario = "reader"
    /\ pc = "new"
    /\ err = NoErr
    /\ params \in ParamSpace
    /\ self = None
    /\ file = <<>>
    /\ pos = 1
    /\ instances = <<>>
    /\ origin = <<>>
    /\ result = None
    /\ mparams = None
    /\ model = EmptyFn
    /\ call = None
    /\ calls = <<>>
    /\ ret = None

(* ------------------------ classifier: __init__ ------------------------- *)
ModelParamSpace ==
    [sampler : {None, "gumbel_softmax"},
     thresh : {"0.5"},
     label_indexer : {"indexer"}]

\* the attributes __init__ assigns (lines 70-88); `sampler` is a parameter of
\* __init__ that no statement stores
ModelAttrs(p) ==
    [label_indexer |-> p.label_indexer,
     num_labels |-> NumTags,
     thresh |-> p.thresh,
     log_thresh |-> <<"log", p.thresh, "+1e-5">>,
     text_field_embedder |-> "text_field_embedder",
     generator |-> "generator",
     identifier |-> "identifier",
     classification_metric |-> <<"ClassificationMetrics", p.label_indexer>>]

(* ------------------------- classifier: forward ------------------------- *)
\* a guard that lets extra keyword arguments through
KwargsIgnored(kwargs) == NoErr

\* lines 144-145
KwargsError(kwargs) ==
    IF Cardinality(kwargs) > 0 THEN "NotImplementedError" ELSE NoErr

\* util.get_text_field_mask: 1 where the token id is not the padding id 0
get_text_field_mask(tokens) ==
    [ix \in DOMAIN tokens |->
        [t \in DOMAIN tokens[ix] |-> IF tokens[ix][t] # 0 THEN 1 ELSE 0]]

\* the sub-modules are opaque: a call is the term of its name and arguments
Apply(module, args) == <<module, args>>

\* lines 144-155: [err, calls, outputs]
Forward(m, tokens, labels, kwargs) ==
    LET emb_msg == Apply(m.text_field_embedder, <<tokens>>)
        mask == get_text_field_mask(tokens)
        attentions == Apply(m.generator, <<emb_msg, mask>>)
        c1 == <<[module |-> "text_field_embedder", args |-> <<tokens>>]>>
        c2 == c1 \o <<[module |-> "generator", args |-> <<emb_msg, mask>>]>>
    IN IF KwargsError(kwargs) # NoErr
       THEN [err |-> KwargsError(kwargs), calls |-> <<>>, outputs |-> None]
       ELSE IF "sampler" \notin DOMAIN m
       THEN [err |-> "AttributeError", calls |-> c2, outputs |-> None]
       ELSE LET samples == IF m.sampler # None
                           THEN Apply(m.sampler, <<attentions, mask>>)
                           ELSE attentions
                c3 == IF m.sampler # None
                      THEN c2 \o <<[module |-> "sampler",
                                    args |-> <<attentions, mask>>]>>
                      ELSE c2
                idArgs == <<emb_msg, mask, samples, attentions, labels>>
            IN [err |-> NoErr,
                calls |-> c3 \o <<[module |-> "identifier", args |-> idArgs]>>,
                outputs |-> Apply(m.identifier, idArgs)]

\* batches of token ids, 0 the padding id
TokenBatches ==
    {<< <<5, 7>> >>, << <<5, 0>> >>, << <<5, 7>>, <<3, 0>> >>}

KwargSets == SUBSET {"pos_tags", "chunk_tags"}

(* ------------------------- classifier: decode -------------------------- *)
\* LabelIndexer.get_tag(index): the tag type of a dense index 0..num_tags-1
TagNames == <<"PER", "LOC", "ORG", "MISC", "DATE", "TIME">>
get_tag(index) == TagNames[index + 1]

\* np.exp of a log-probability (given in tenths): the term exp(x)
Exp(x) == [exp |-> x]
\* the literal 1.0, which is exp(0)
One == Exp(0)

\* tensor.sum(-1) of one row
RECURSIVE SumTo(_, _)
SumTo(row, n) == IF n = 0 THEN 0 ELSE row[n - 1] + SumTo(row, n - 1)
RowSum(row) == SumTo(row, Cardinality(DOMAIN row))

\* np.nonzero(row)[0]: the indices of the non-zero entries, ascending
RECURSIVE NonZeroTo(_, _)
NonZeroTo(row, n) ==
    IF n = 0 THEN <<>>
    ELSE NonZeroTo(row, n - 1) \o (IF row[n - 1] # 0 THEN <<n - 1>> ELSE <<>>)
nonzero(row) == NonZeroTo(row, Cardinality(DOMAIN row))

\* a list that stays empty when nothing is predicted
PredListNoDefault(predictions, log_probs, ix) ==
    LET non_zero_indices == nonzero(predictions[ix])
    IN [kx \in 1..Len(non_zero_indices) |->
           <<get_tag(non_zero_indices[kx]),
             Exp(log_probs[ix][non_zero_indices[kx]])>>]

\* a list whose probabilities are read at the list position kx
PredListProbAtPosition(predictions, log_probs, ix) ==
    LET non_zero_indices == nonzero(predictions[ix])
        pred_list == [kx \in 1..Len(non_zero_indices) |->
                         <<get_tag(non_zero_indices[kx]),
                           Exp(log_probs[ix][kx - 1])>>]
    IN IF Len(pred_list) = 0 THEN << <<"O", One>> >> ELSE pred_list

\* lines 197-210: pred_list of row ix
PredList(predictions, log_probs, ix) ==
    LET non_zero_indices == nonzero(predictions[ix])
        pred_list == [kx \in 1..Len(non_zero_indices) |->
                         <<get_tag(non_zero_indices[kx]),
                           Exp(log_probs[ix][non_zero_indices[kx]])>>]
    IN IF Len(pred_list) = 0 THEN << <<"O", One>> >> ELSE pred_list

\* OrderedDict.__setitem__: a known key keeps its place, a new one goes last
DictSet(d, key, val) ==
    IF \E k \in 1..Len(d) : d[k][1] = key
    THEN [k \in 1..Len(d) |-> IF d[k][1] = key THEN <<key, val>> ELSE d[k]]
    ELSE Append(d, <<key, val>>)

\* a mapping that keeps the padded positions
RECURSIVE AttentionUntruncated(_, _, _, _)
AttentionUntruncated(attentions, lengths, ix, n) ==
    IF n = 0 THEN <<>>
    ELSE DictSet(AttentionUntruncated(attentions, lengths, ix, n - 1),
                 get_tag(n - 1),
                 [t \in 1..Cardinality(DOMAIN attentions[ix]) |->
                     attentions[ix][t - 1][n - 1]])

\* lines 212-215: the OrderedDict of row ix after the keys jx = 0..n-1
RECURSIVE AttentionOf(_, _, _, _)
AttentionOf(attentions, lengths, ix, n) ==
    IF n = 0 THEN <<>>
    ELSE DictSet(AttentionOf(attentions, lengths, ix, n - 1),
                 get_tag(n - 1),
                 [t \in 1..lengths[ix] |-> attentions[ix][t - 1][n - 1]])

\* a decode that walks the batch rows from the last to the first
DecodeReversed(outputs) ==
    LET lengths == [ix \in DOMAIN outputs.mask |-> RowSum(outputs.mask[ix])]
        batch == Cardinality(DOMAIN lengths)
    IN [preds |-> [r \in 1..batch |->
                      PredList(outputs.preds, outputs.log_probs, batch - r)],
        attentions |-> [r \in 1..batch |->
                      AttentionOf(outputs.attentions, lengths, batch - r,
                          Cardinality(DOMAIN outputs.attentions[batch - r][0]))]]

\* lines 185-217
Decode(outputs) ==
    LET lengths == [ix \in DOMAIN outputs.mask |-> RowSum(outputs.mask[ix])]
        batch == Cardinality(DOMAIN lengths)
    IN [preds |-> [r \in 1..batch |->
                      PredList(outputs.preds, outputs.log_probs, r - 1)],
        attentions |-> [r \in 1..batch |->
                      AttentionOf(outputs.attentions, lengths, r - 1,
                          Cardinality(DOMAIN outputs.attentions[r - 1][0]))]]

\* The batches decode is given.  The mask of a row of n tokens is n ones and
\* then padding; every cell of log_probs (in tenths) and of attentions (in
\* thousandths) holds a value of its own.
PaddedMask(n) == [t \in 0..(MaxSeq - 1) |-> IF t < n THEN 1 ELSE 0]

Outputs(b, len, bits) ==
    [mask |-> [ix \in 0..(b - 1) |-> PaddedMask(len[ix])],
     preds |-> bits,
     log_probs |-> [ix \in 0..(b - 1) |->
                       [j \in 0..(NumTags - 1) |-> -(1 + 2 * j + 7 * ix)]],
     attentions |-> [ix \in 0..(b - 1) |->
                       [t \in 0..(MaxSeq - 1) |->
                           [j \in 0..(NumTags - 1) |->
                               100 * ix + 10 * t + j + 1]]]]

(* --------------------------- model actions ----------------------------- *)
\* BaseClassifier(...)
ModelConstruct ==
    /\ scenario = "model" /\ pc = "new"
    /\ model' = ModelAttrs(mparams)
    /\ pc' = "ready"
    /\ UNCHANGED <<scenario, err, mparams, call, calls, ret, readerVars>>

\* forward(tokens, labels, tags, **kwargs)
forward ==
    /\ scenario = "model" /\ pc = "ready"
    /\ \E tokens \in TokenBatches, labels \in {None, "labels"},
          kwargs \in KwargSets :
          LET r == Forward(model, tokens, labels, kwargs)
          IN /\ call' = [op |-> "forward", tokens |-> tokens,
                         labels |-> labels, kwargs |-> kwargs]
             /\ calls' = r.calls
             /\ err' = r.err
             /\ ret' = r.outputs
             /\ pc' = IF r.err # NoErr THEN "failed" ELSE "forwarded"
    /\ UNCHANGED <<scenario, mparams, model, readerVars>>

\* decode(outputs)
decode ==
    /\ scenario = "model" /\ pc = "ready"
    /\ \E b \in 1..MaxBatch :
          \E len \in [0..(b - 1) -> 1..MaxSeq],
             bits \in [0..(b - 1) -> [0..(NumTags - 1) -> {0, 1}]] :
             /\ call' = [op |-> "decode", outputs |-> Outputs(b, len, bits)]
             /\ ret' = Decode(Outputs(b, len, bits))
    /\ pc' = "decoded"
    /\ UNCHANGED <<scenario, err, mparams, model, calls, readerVars>>

InitModel ==
    /\ scenario = "model"
    /\ pc = "new"
    /\ err = NoErr
    /\ mparams \in ModelParamSpace
    /\ model = EmptyFn
    /\ call = None
    /\ calls = <<>>
    /\ ret = None
    /\ params = None
    /\ self = None
    /\ file = <<>>
    /\ pos = 1
    /\ instances = <<>>
    /\ origin = <<>>
    /\ result = None

Init == InitReader \/ InitModel

Next ==
    \/ Construct
    \/ ReadOpen
    \/ ReadDivider
    \/ ReadSentence
    \/ ReadReturn
    \/ ModelConstruct
    \/ forward
    \/ decode

Spec == Init /\ [][Next]_vars

(* --------------------- the file, as the claims see it ------------------ *)
\* first lines of the sentences of f: maximal runs of non-divider lines
SentStarts(f) ==
    {i \in 1..Len(f) : ~_is_divider(f[i]) /\ (i = 1 \/ _is_divider(f[i - 1]))}

SentLines(f, i) == SubSeq(f, i, GroupEnd(f, i))

\* the first column of the lines: the sentence's tokens as written in the file
TokensOf(lines) == [r \in 1..Len(lines) |-> lines[r][1]]

\* the tokens as the reader hands them on: digit runs replaced when
\* convert_numbers is set
ConvertedTokensOf(rd, lines) ==
    [r \in 1..Len(lines) |->
        IF rd.convert_numbers THEN NumSub(lines[r][1]) ELSE lines[r][1]]

\* the column the tag_label names, read off the lines of the sentence
TagColumnOf(lines, label) ==
    [r \in 1..Len(lines) |->
        lines[r][CASE label = "pos" -> 2
                   [] label = "chunk" -> 3
                   [] OTHER -> MinLen(lines)]]

\* indices of the instances that come from the sentence starting at line s
InstIdx(org, s) == {k \in 1..Len(org) : org[k].sent = s}

RECURSIVE ConcatTokens(_, _, _)
ConcatTokens(insts, org, s) ==
    IF insts = <<>> THEN <<>>
    ELSE (IF org[1].sent = s THEN insts[1].tokens ELSE <<>>)
         \o ConcatTokens(Tail(insts), Tail(org), s)

Ceil(n, l) == (n + l - 1) \div l

Returned == scenario = "reader" /\ pc = "returned"

(* ------------------------------- C1 ------------------------------------ *)
\* C1 as stated: with max_sentence_length = L > 0 every returned instance has
\* at most L tokens and the windows of a sentence, concatenated in emission
\* order, give back the sentence's token sequence as written in the file.
C1_AsStated ==
    (Returned /\ self.max_sentence_length > 0) =>
        /\ \A k \in 1..Len(result) :
              Len(result[k].tokens) <= self.max_sentence_length
        /\ \A s \in SentStarts(file) :
              ConcatTokens(result, origin, s) = TokensOf(SentLines(file, s))

\* C1 amended: with max_sentence_length = L > 0 every returned instance has at
\* most L tokens and the windows of a sentence, concatenated in emission
\* order, give back the sentence's tokens in order, none lost, duplicated or
\* reordered, each token being the file's token with its digit runs replaced
\* by "@0@" when convert_numbers is set (and the file's token otherwise).
C1_WindowsConcat ==
    (Returned /\ self.max_sentence_length > 0) =>
        /\ \A k \in 1..Len(result) :
              Len(result[k].tokens) <= self.max_sentence_length
        /\ \A s \in SentStarts(file) :
              ConcatTokens(result, origin, s)
                  = ConvertedTokensOf(self, SentLines(file, s))

\* a returned read that split a sentence with a digit token, numbers converted
C1_Witness ==
    /\ Returned
    /\ self.max_sentence_length > 0
    /\ self.convert_numbers
    /\ \E s \in SentStarts(file) :
          /\ Cardinality(InstIdx(origin, s)) >= 2
          /\ TokensOf(SentLines(file, s))
                 # ConvertedTokensOf(self, SentLines(file, s))

(* ------------------------------- C2 ------------------------------------ *)
\* C2 as stated: a read that returns instances has met no non-divider line
\* whose column count is other than 3 or 4 (any such line makes _read fail).
C2_AsStated ==
    Returned =>
        \A i \in 1..Len(file) :
            ~_is_divider(file[i]) => Len(file[i]) \in {3, 4}

TagWindow(k) ==
    Slice(TagColumnOf(SentLines(file, origin[k].sent), self.tag_label),
          origin[k].ix,
          Stepsize(self, Len(SentLines(file, origin[k].sent))))

C10_Windows ==
    (scenario = "reader" /\ pc \in {"reading", "returned"}) =>
        LET L == self.max_sentence_length
            done == {s \in SentStarts(file) : s < pos}
        IN /\ \A k \in 1..Len(origin) : origin[k].sent \in done
           /\ \A k \in 1..(Len(origin) - 1) :
                 \/ origin[k].sent < origin[k + 1].sent
                 \/ /\ origin[k].sent = origin[k + 1].sent
                    /\ origin[k].ix < origin[k + 1].ix
           /\ pc = "returned" =>
                 /\ Len(result) = Len(instances)
                 /\ \A k \in 1..Len(result) :
                       result[k].tokens = instances[k].tokens
           /\ \A s \in done :
                 LET n == Len(SentLines(file, s))
                     toks == ConvertedTokensOf(self, SentLines(file, s))
                     idx == InstIdx(origin, s)
                 IN /\ Cardinality(idx) = IF L > 0 THEN Ceil(n, L) ELSE 1
                    /\ \A k \in idx :
                          LET w == IF L > 0 THEN L ELSE n
                              first == origin[k].ix + 1
                              last == Min(origin[k].ix + w, n)
                          IN /\ origin[k].ix % w = 0
                             /\ instances[k].tokens = SubSeq(toks, first, last)
                             /\ (last < n) => Len(instances[k].tokens) = L

\* a returned read with a sentence cut in full windows and a shorter last one
C10_Witness ==
    /\ Returned
    /\ self.max_sentence_length > 0
    /\ \E s \in SentStarts(file) :
          /\ Len(SentLines(file, s)) > self.max_sentence_length
          /\ Len(SentLines(file, s)) % self.max_sentence_length # 0
          /\ Cardinality(InstIdx(origin, s))
                 = Ceil(Len(SentLines(file, s)), self.max_sentence_length)

(* ----------------------- decode, as the claims see it ------------------ *)
Decoded == scenario = "model" /\ pc = "decoded"

Rows == DOMAIN call.outputs.mask

\* tag indices of row ix whose prediction bit is set
SetBits(ix) ==
    {j \in DOMAIN call.outputs.preds[ix] : call.outputs.preds[ix][j] # 0}

(* ------------------------------- C5 ------------------------------------ *)
\* C5: for every row whose prediction bits are all zero decode yields exactly
\* the single entry ["O", 1.0]; decode yields an empty prediction list for no
\* row.
C5_DefaultO ==
    Decoded =>
        \A ix \in Rows :
            /\ ret.preds[ix + 1] # <<>>
            /\ SetBits(ix) = {} => ret.preds[ix + 1] = << <<"O", Exp(0)>> >>

\* a decoded batch with a row of zero bits next to a row with set bits
C5_Witness ==
    /\ Decoded
    /\ \E ix \in Rows : SetBits(ix) = {}
    /\ \E ix \in Rows : SetBits(ix) # {}

(* ------------------------------- C6 ------------------------------------ *)
\* C6: for every row with at least one set bit decode yields one entry per
\* set bit and none for unset bits, in ascending tag-index order: the k-th
\* entry is (get_tag(j), exp(log_probs[row, j])) for the k-th smallest set
\* index j.
C6_OneEntryPerSetBit ==
    Decoded =>
        \A ix \in Rows :
            SetBits(ix) # {} =>
                /\ Len(ret.preds[ix + 1]) = Cardinality(SetBits(ix))
                /\ \A j \in SetBits(ix) :
                      ret.preds[ix + 1]
                          [1 + Cardinality({i \in SetBits(ix) : i < j})]
                          = <<TagNames[j + 1],
                              Exp(call.outputs.log_probs[ix][j])>>

\* a decoded row with bits [1, 0, 1, ...]: entries for tags 0 and 2, in order
C6_Witness ==
    /\ Decoded
    /\ \E ix \in Rows :
          /\ {0, 2} \subseteq SetBits(ix)
          /\ 1 \notin SetBits(ix)
          /\ ret.preds[ix + 1][2][1] = TagNames[3]

(* ------------------------------- C7 ------------------------------------ *)
\* unpadded length of row ix: the number of ones of its mask
UnpaddedLen(ix) ==
    Cardinality({t \in DOMAIN call.outputs.mask[ix] :
                    call.outputs.mask[ix][t] = 1})

\* C7: for every row the attention mapping has one key per tag index of the
\* attention tensor, in ascending index order, and the value of tag j is the
\* row's weights for tag j at positions 0..n-1, n the sum of the row's mask;
\* no weight of a padded position appears.
C7_AttentionTruncated ==
    Decoded =>
        \A ix \in Rows :
            LET att == ret.attentions[ix + 1]
                n == UnpaddedLen(ix)
                width == Cardinality(DOMAIN call.outputs.attentions[ix][0])
            IN /\ Len(att) = width
               /\ \A j \in 0..(width - 1) :
                     /\ att[j + 1][1] = TagNames[j + 1]
                     /\ Len(att[j + 1][2]) = n
                     /\ \A t \in 0..(n - 1) :
                           att[j + 1][2][t + 1]
                               = call.outputs.attentions[ix][t][j]
                     /\ \A t \in DOMAIN call.outputs.attentions[ix] :
                           t >= n =>
                              \A u \in 1..Len(att[j + 1][2]) :
                                 att[j + 1][2][u]
                                     # call.outputs.attentions[ix][t][j]

\* a decoded batch with a padded row and a full row
C7_Witness ==
    /\ Decoded
    /\ \E ix \in Rows : UnpaddedLen(ix) < MaxSeq
    /\ \E ix \in Rows : UnpaddedLen(ix) = MaxSeq

(* ------------------------------- C8 ------------------------------------ *)
ForwardCalled == scenario = "model" /\ pc \in {"forwarded", "failed"}

\* C8 as stated: for a classifier built by __init__, a forward call without
\* extra keyword arguments hands the identifier the raw attention as sampled
\* attention when the classifier was given no sampler, and sampler(raw
\* attention, mask) when it was given one, with the raw attention unchanged.
C8_AsStated ==
    (ForwardCalled /\ call.kwargs = {}) =>
        \E k \in 1..Len(calls) :
            /\ calls[k].module = "identifier"
            /\ LET raw == <<"generator",
                            <<<<"text_field_embedder", <<call.tokens>>>>,
                              get_text_field_mask(call.tokens)>>>>
               IN /\ calls[k].args[4] = raw
                  /\ calls[k].args[3] =
                        IF mparams.sampler = None THEN raw
                        ELSE <<mparams.sampler,
                               <<raw, get_text_field_mask(call.tokens)>>>>

(* ------------------------------- C9 ------------------------------------ *)
\* C9: forward called with any extra keyword argument fails with
\* NotImplementedError before the embedder, generator, sampler or identifier
\* is invoked; forward called without one never raises NotImplementedError.
C9_KwargsRejected ==
    ForwardCalled =>
        /\ call.kwargs # {} =>
              /\ pc = "failed"
              /\ err = "NotImplementedError"
              /\ calls = <<>>
              /\ ret = None
        /\ call.kwargs = {} => err # "NotImplementedError"

\* forward was called with an extra keyword argument and failed
C9_Witness ==
    /\ ForwardCalled
    /\ "pos_tags" \in call.kwargs
    /\ err = "NotImplementedError"


(* ------------------------------- C11 ----------------------------------- *)
\* the arguments __init__ accepts, read off the claim
ValidParams(p) ==
    /\ p.tag_label \in {None, "ner", "pos", "chunk"}
    /\ p.feature_labels \subseteq {"ner", "pos", "chunk"}
    /\ p.coding_scheme \in {"IOB1", "BIOUL"}

\* a reader was built and its _read ended with an exception
ReadFailed == scenario = "reader" /\ pc = "failed" /\ ValidParams(params)

\* C11: every instance returned by _read has a tag sequence as long as its
\* token sequence; a read that fails returns no instances, and a sentence
\* whose instances would carry more tags than tokens (tag_label "pos" and a
\* sentence longer than max_sentence_length) is never read past.
C11_TagsMatchTokens ==
    scenario = "reader" =>
        /\ Returned =>
              \A k \in 1..Len(result) :
                  /\ "tags" \in DOMAIN result[k]
                  /\ Len(result[k].tags) = Len(result[k].tokens)
        /\ pc = "failed" => result = None
        /\ (pc \in {"reading", "returned"}
            /\ self.tag_label = "pos" /\ self.max_sentence_length > 0) =>
              \A s \in SentStarts(file) :
                  s < pos => Len(SentLines(file, s)) <= self.max_sentence_length

\* a read stopped at a sentence whose POS column is longer than its window
C11_Witness ==
    /\ ReadFailed
    /\ err = "ConfigurationError"
    /\ self.tag_label = "pos"
    /\ self.max_sentence_length > 0
    /\ Len(SentLines(file, pos)) > self.max_sentence_length
    /\ result = None


(* ------------------------------- C12 ----------------------------------- *)
\* the sentence of the file that starts at line s has a line whose number of
\* columns is neither 3 nor 4
MalformedSentence(lines, s) ==
    \E i \in 1..Len(SentLines(lines, s)) :
        Len(SentLines(lines, s)[i]) \notin {3, 4}

\* C12 (as stated): a file that contains a sentence with a malformed column
\* count makes _read fail, so _read never returns for such a file and never
\* reads past such a sentence.
C12_AsStated ==
    (scenario = "reader" /\ pc \in {"reading", "returned"}) =>
        \A s \in SentStarts(file) :
            MalformedSentence(file, s) => (pc = "reading" /\ pos <= s)


(* ------------------------------- C15 ----------------------------------- *)
\* C15: __init__ raises ConfigurationError, and no reader exists, exactly
\* when tag_label is a non-null value outside {ner, pos, chunk}, or a feature
\* label is outside {ner, pos, chunk}, or coding_scheme is outside
\* {IOB1, BIOUL}; the error comes before any file is opened.
C15_ConstructionError ==
    (scenario = "reader" /\ pc # "new") =>
        IF ValidParams(params)
        THEN \/ pc \in {"ready", "reading", "returned"}
             \/ pc = "failed" /\ file # <<>>
        ELSE /\ pc = "failed"
             /\ err = "ConfigurationError"
             /\ file = <<>>
             /\ instances = <<>>
             /\ result = None
             /\ self = None

\* a construction rejected for its coding scheme alone
C15_Witness ==
    /\ scenario = "reader" /\ pc = "failed"
    /\ err = "ConfigurationError"
    /\ params.tag_label = None
    /\ params.feature_labels = {}
    /\ params.coding_scheme = "BIO"
    /\ file = <<>>


(* ------------------------------- C16 ----------------------------------- *)
\* the NER tags, as written in the file, of the window instance k was cut from
NerWindow(k) ==
    Slice(TagColumnOf(SentLines(file, origin[k].sent), "ner"),
          origin[k].ix,
          Stepsize(self, Len(SentLines(file, origin[k].sent))))

DecodeStep == scenario = "model" /\ pc = "ready" /\ pc' = "decoded"

FourColumns(f) == \A i \in 1..Len(f) : _is_divider(f[i]) \/ Len(f[i]) = 4

\* a reader was built and its _read has opened a file
ReadStarted ==
    /\ scenario = "reader" /\ ValidParams(params)
    /\ pc \in {"reading", "returned", "failed"}
    /\ file # <<>>

\* the claim of C18 for the readers whose tag_label is in labels
C18_For(labels) ==
    (/\ ReadStarted
     /\ params.tag_label \in labels
     /\ params.coding_scheme = "IOB1"
     /\ params.feature_labels = {}
     /\ FourColumns(file)) =>
        /\ pc # "failed"
        /\ Returned =>
              \A k \in 1..Len(result) :
                  /\ Len(result[k].tags) = Len(result[k].tokens)
                  /\ \A i \in 2..Len(result[k].tags) :
                        result[k].tags[i] = TagWindow(k)[i]

\* C18 (as stated): under each tag_label of ner, pos and chunk and every
\* max_sentence_length a file of 4-column sentences is read without error,
\* also when a sentence is longer than max_sentence_length, and the tags of
\* each instance are the selected column's values for the window's tokens
\* (the first tag aside, which the post-read pass may rewrite).
C18_AsStated == C18_For({"ner", "pos", "chunk"})


(* ------------------------------- C19 ----------------------------------- *)
\* the number of windows of a sentence of n tokens
NumWindows(n) ==
    IF params.max_sentence_length > 0
    THEN Ceil(n, params.max_sentence_length) ELSE 1

\* the claim of C19 for the accepted configurations of which cfg holds
C19_For(cfg) ==
    (ReadStarted /\ cfg /\ FourColumns(file)) =>
        /\ pc # "failed"
        /\ Returned =>
              \A s \in SentStarts(file) :
                  Cardinality(InstIdx(origin, s))
                      = NumWindows(Len(SentLines(file, s)))

\* C19 (as stated): under every configuration the constructor accepts,
\* tag_label = None included, _read of a file of 4-column sentences ends
\* without error and returns one instance per window.
C19_AsStated == C19_For(ValidParams(params))


(* ======================= visualization: web page ======================= *)
\* The page writer of visualize_attns.py.  The variables are used as follows:
\* call is the list of predictions handed to
\* colorized_predictions_to_webpage, pos the index of the prediction the
\* loop of line 236 is at, ret the strings written to the file so far, pc the
\* place in the function ("new", "writing", "pdb", "done", "failed").
MaxWords == 2

colors2rgb ==
    [purple |-> <<"#", "7", "1", "2", "f", "7", "9">>,
     brickRed |-> <<"#", "d", "2", "4", "0", "5", "f">>,
     yellowGreen |-> <<"#", "e", "0", "f", "f", "4", "f">>]

\* re.sub(".*-", "", tag): the greedy match ends at the last "-" of the tag
RECURSIVE ReSubToDash(_)
ReSubToDash(tag) ==
    IF \E k \in 1..Len(tag) : tag[k] = "-"
    THEN ReSubToDash(Tail(tag))
    ELSE tag

HexDigits ==
    <<"0", "1", "2", "3", "4", "5", "6", "7",
      "8", "9", "a", "b", "c", "d", "e", "f">>

\* str(hex(n))[2:]
RECURSIVE Hex(_)
Hex(n) ==
    IF n < 16 THEN <<HexDigits[n + 1]>>
    ELSE Hex(n \div 16) \o <<HexDigits[(n % 16) + 1]>>

\* abs of a weight; the weights are counted in hundredths
Abs(x) == IF x < 0 THEN -x ELSE x

\* int(abs(attn_weights) * 255)
AttnByte(attn_weights) == (Abs(attn_weights) * 255) \div 100

\* f"{attn_weights:2.2f}" of a weight in [0, 10)
Format22f(attn_weights) ==
    <<HexDigits[(attn_weights \div 100) + 1], ".",
      HexDigits[((attn_weights % 100) \div 10) + 1],
      HexDigits[(attn_weights % 10) + 1]>>

\* pdb.set_trace() of line 375: the interpreter stops in the debugger
PdbTrace == "pdb.set_trace"

\* a colouring with the colours of the two one-sided cases exchanged
AttnToRgbSwapped(attn_weights, pred_tag, gold_tag) ==
    LET p == ReSubToDash(pred_tag)
        g == ReSubToDash(gold_tag)
        attn_hex == Hex(AttnByte(attn_weights))
    IN IF p = g
       THEN IF p # <<"O">>
            THEN [err |-> NoErr, rgb |-> colors2rgb["yellowGreen"]]
            ELSE [err |-> NoErr,
                  rgb |-> <<"#", "2", "2", "a", "a", "d", "d">> \o attn_hex]
       ELSE IF p = <<"O">>
            THEN [err |-> NoErr, rgb |-> colors2rgb["purple"]]
            ELSE IF g = <<"O">>
            THEN [err |-> NoErr, rgb |-> colors2rgb["brickRed"]]
            ELSE [err |-> PdbTrace, rgb |-> <<>>]

\* lines 360-376: [err, rgb]; in the last branch no value is bound to rgb
_attn_to_rgb(attn_weights, pred_tag, gold_tag) ==
    LET p == ReSubToDash(pred_tag)
        g == ReSubToDash(gold_tag)
        attn_hex == Hex(AttnByte(attn_weights))
    IN IF p = g
       THEN IF p # <<"O">>
            THEN [err |-> NoErr, rgb |-> colors2rgb["yellowGreen"]]
            ELSE [err |-> NoErr,
                  rgb |-> <<"#", "2", "2", "a", "a", "d", "d">> \o attn_hex]
       ELSE IF p = <<"O">>
            THEN [err |-> NoErr, rgb |-> colors2rgb["brickRed"]]
            ELSE IF g = <<"O">>
            THEN [err |-> NoErr, rgb |-> colors2rgb["purple"]]
            ELSE [err |-> PdbTrace, rgb |-> <<>>]

\* lines 379-386: [err, html], the html as the pieces of the f-string
_get_word_color(word, attn_weights, pred_tag, gold_tag) ==
    LET color == _attn_to_rgb(attn_weights, pred_tag, gold_tag)
    IN IF color.err # NoErr THEN [err |-> color.err, html |-> <<>>]
       ELSE [err |-> NoErr,
             html |-> <<"<div class=tooltip><span style=background-color:",
                        color.rgb, ">", word,
                        "</span><span class=tooltiptext>",
                        Format22f(attn_weights), "</span></div>">>]

\* " ".join(words)
RECURSIVE Join(_)
Join(words) ==
    IF words = <<>> THEN <<>>
    ELSE IF Len(words) = 1 THEN words[1]
    ELSE words[1] \o <<" ">> \o Join(Tail(words))

\* text.split(): the runs of characters between blanks; cur is the run open
\* at the head of text
RECURSIVE SplitFrom(_, _)
SplitFrom(text, cur) ==
    LET closed == IF cur = <<>> THEN <<>> ELSE <<cur>>
    IN IF text = <<>> THEN closed
       ELSE IF Head(text) = " " THEN closed \o SplitFrom(Tail(text), <<>>)
       ELSE SplitFrom(Tail(text), Append(cur, Head(text)))

Split(text) == SplitFrom(text, <<>>)

\* lines 397-401 from index i on (i counts from 1): [err, html]
RECURSIVE Blocks(_, _, _, _, _)
Blocks(words, attn_weights, pred_tags, gold_tags, i) ==
    IF i > Len(words) THEN [err |-> NoErr, html |-> <<>>]
    ELSE IF i > Len(pred_tags) \/ i > Len(gold_tags)
    THEN [err |-> "IndexError", html |-> <<>>]
    ELSE LET b == _get_word_color(words[i], attn_weights[i],
                                  pred_tags[i], gold_tags[i])
             rest == Blocks(words, attn_weights, pred_tags, gold_tags, i + 1)
         IN IF b.err # NoErr THEN b
            ELSE IF rest.err # NoErr THEN rest
            ELSE [err |-> NoErr, html |-> <<b.html>> \o rest.html]

\* lines 389-402: [err, html], the html as the list of blocks that line 402
\* joins with blanks
colorize_text(text, attn_weights, pred_tags, gold_tags) ==
    LET words == Split(text)
    IN IF Len(words) # Len(attn_weights)
       THEN [err |-> "AssertionError", html |-> <<>>]
       ELSE Blocks(words, attn_weights, pred_tags, gold_tags, 1)

\* lines 237-258 for one prediction: [err, out], out the string written
RenderPrediction(pred) ==
    LET txt == Join(pred.text)
        html == colorize_text(txt, pred.attn, pred.pred_labels,
                              pred.gold_labels)
        pred_gold == IF pred.pred = pred.gold
                     THEN <<"<correct>", pred.pred, pred.gold, "</correct>">>
                     ELSE <<"<incorrect>", pred.pred, pred.gold,
                            "</incorrect>">>
    IN IF html.err # NoErr THEN [err |-> html.err, out |-> <<>>]
       ELSE [err |-> NoErr, out |-> <<html.html, pred_gold, "<br>">>]

\* The predictions a page is made of.  The tokens are words without blanks,
\* the weights lie in [0, 1] and are counted in hundredths.
VizWord(i) == IF i % 2 = 1 THEN <<"U", "N">> ELSE <<"a">>
VizWeight(i) == (50 * i) % 150
PredTags == {<<"O">>, <<"B", "-", "P", "E", "R">>, <<"B", "-", "O", "R", "G">>}
GoldTags == {<<"O">>, <<"I", "-", "P", "E", "R">>, <<"B", "-", "O", "R", "G">>}
TagLists(tags) == UNION {[1..n -> tags] : n \in 0..MaxWords}
SentenceLabels == {<<"PER">>, <<"O">>}

Prediction(n, m, pt, gt, gold) ==
    [text |-> [i \in 1..n |-> VizWord(i)],
     attn |-> [i \in 1..m |-> VizWeight(i)],
     pred |-> <<"PER">>,
     gold |-> gold,
     pred_labels |-> pt,
     gold_labels |-> gt]

\* the opening of the page (lines 160-235), the legend left out
Header == "<html><body>"
Footer == "</body></html>"

\* colorized_predictions_to_webpage(predictions, vis_page): the file is
\* opened for writing and the header written
VizOpen ==
    /\ scenario = "viz" /\ pc = "new"
    /\ \E n \in 0..MaxWords, m \in 0..MaxWords,
          pt \in TagLists(PredTags), gt \in TagLists(GoldTags),
          gold \in SentenceLabels :
          call' = <<Prediction(n, m, pt, gt, gold)>>
    /\ ret' = <<Header>>
    /\ pos' = 1
    /\ pc' = "writing"
    /\ UNCHANGED <<scenario, err, params, self, file, instances, origin,
                   result, mparams, model, calls>>

\* one round of the loop of line 236
VizPred ==
    /\ scenario = "viz" /\ pc = "writing" /\ pos <= Len(call)
    /\ LET r == RenderPrediction(call[pos])
       IN IF r.err = NoErr
          THEN /\ ret' = Append(ret, r.out)
               /\ pos' = pos + 1
               /\ UNCHANGED <<pc, err>>
          ELSE IF r.err = PdbTrace
          THEN /\ pc' = "pdb"
               /\ UNCHANGED <<ret, pos, err>>
          ELSE /\ pc' = "failed"
               /\ err' = r.err
               /\ UNCHANGED <<ret, pos>>
    /\ UNCHANGED <<scenario, call, params, self, file, instances, origin,
                   result, mparams, model, calls>>

\* the debugger prompt of line 375: `continue` runs into `return rgb` with
\* rgb unbound, `quit` (or the end of the input) raises BdbQuit
PdbCommand ==
    /\ scenario = "viz" /\ pc = "pdb"
    /\ \E e \in {"UnboundLocalError", "BdbQuit"} : err' = e
    /\ pc' = "failed"
    /\ UNCHANGED <<scenario, call, ret, pos, params, self, file, instances,
                   origin, result, mparams, model, calls>>

\* lines 259-260: the footer
VizClose ==
    /\ scenario = "viz" /\ pc = "writing" /\ pos > Len(call)
    /\ ret' = Append(ret, Footer)
    /\ pc' = "done"
    /\ UNCHANGED <<scenario, call, pos, err, params, self, file, instances,
                   origin, result, mparams, model, calls>>

InitViz ==
    /\ scenario = "viz"
    /\ pc = "new"
    /\ err = NoErr
    /\ call = None
    /\ ret = <<>>
    /\ pos = 1
    /\ params = None
    /\ self = None
    /\ file = <<>>
    /\ instances = <<>>
    /\ origin = <<>>
    /\ result = None
    /\ mparams = None
    /\ model = EmptyFn
    /\ calls = <<>>

NextViz == VizOpen \/ VizPred \/ PdbCommand \/ VizClose

SpecViz == InitViz /\ [][NextViz]_vars


(* ------------------------- claims on the page -------------------------- *)
\* a tag with its span prefix ("B-", "I-") taken off
EntityType(tag) ==
    IF Len(tag) > 2 /\ tag[2] = "-" THEN SubSeq(tag, 3, Len(tag)) ELSE tag

\* prediction k of the page was rendered and written
Rendered(k) ==
    /\ scenario = "viz" /\ pc \in {"writing", "done"}
    /\ k \in 1..Len(call) /\ k < pos

\* the colour of word i in the string written for prediction k (the header
\* is the first string of the file)
ColourOf(k, i) == ret[k + 1][1][i][2]

(* ------------------------------- C13 ----------------------------------- *)
\* C13: for every word of a rendered prediction, with the tags compared by
\* entity type, the colour is yellowGreen when predicted and gold type are
\* the same and not "O", brickRed when the predicted type is "O" and the gold
\* type is not, purple when the gold type is "O" and the predicted type is
\* not, and none of the three when both are "O".
C13_Colours ==
    (scenario = "viz" /\ pc \in {"writing", "done"}) =>
        \A k \in 1..Len(call) :
          Rendered(k) =>
            \A i \in 1..Len(call[k].text) :
                LET p == EntityType(call[k].pred_labels[i])
                    g == EntityType(call[k].gold_labels[i])
                    c == ColourOf(k, i)
                IN /\ (p = g /\ p # <<"O">>) => c = colors2rgb["yellowGreen"]
                   /\ (p = <<"O">> /\ g # <<"O">>) => c = colors2rgb["brickRed"]
                   /\ (p # <<"O">> /\ g = <<"O">>) => c = colors2rgb["purple"]
                   /\ (p = <<"O">> /\ g = <<"O">>) =>
                         c \notin {colors2rgb["yellowGreen"],
                                   colors2rgb["brickRed"],
                                   colors2rgb["purple"]}

\* a written prediction with a missed word and a spurious word
C13_Witness ==
    /\ Rendered(1)
    /\ Len(call[1].text) = 2
    /\ ColourOf(1, 1) = colors2rgb["brickRed"]
    /\ ColourOf(1, 2) = colors2rgb["purple"]
    /\ call[1].pred_labels[1] = <<"O">>
    /\ call[1].gold_labels[2] = <<"O">>

(* ------------------------------- C14 ----------------------------------- *)
\* the four lists of a prediction differ in length
LengthMismatch(pred) ==
    \/ Len(pred.text) # Len(pred.attn)
    \/ Len(pred.text) # Len(pred.pred_labels)
    \/ Len(pred.text) # Len(pred.gold_labels)

\* C14 (as stated): a prediction whose tokens, weights, predicted tags and
\* gold tags are not all of one length is never rendered, tag lists longer
\* than the token list included: the page writer fails at it.
C14_AsStated ==
    (scenario = "viz" /\ pc # "new") =>
        \A k \in 1..Len(call) :
            LengthMismatch(call[k]) => (pos <= k /\ pc \in {"writing", "failed"})

(* ------------------------------- C20 ----------------------------------- *)
\* C20 (as stated): _attn_to_rgb returns a colour for every pair of tags,
\* two different entity types included: the page writer never stops in the
\* debugger and never fails with an error that comes out of _attn_to_rgb.
C20_AsStated ==
    scenario = "viz" =>
        /\ pc # "pdb"
        /\ err \notin {"UnboundLocalError", "BdbQuit"}


(* ------------------------------- C21 ----------------------------------- *)
\* the file has two divider lines in a row
ConsecutiveDividers(f) ==
    \E i \in 1..(Len(f) - 1) : _is_divider(f[i]) /\ _is_divider(f[i + 1])

\* C21: every instance _read creates has at least one token and, when it
\* has tags, at least one tag, whatever the file and max_sentence_length;
\* the post-read pass never fails on the first tag being out of bounds, and
\* the same holds of the instances returned.
C21_NoEmptyInstance ==
    scenario = "reader" =>
        /\ \A k \in 1..Len(instances) :
              /\ Len(instances[k].tokens) >= 1
              /\ "tags" \in DOMAIN instances[k] => Len(instances[k].tags) >= 1
        /\ err # "IndexError"
        /\ Returned =>
              \A k \in 1..Len(result) : Len(result[k].tokens) >= 1

\* a returned read of a sentence cut into two or more full windows
C21_Witness ==
    /\ Returned
    /\ self.max_sentence_length > 0
    /\ \E s \in SentStarts(file) :
          LET n == Len(SentLines(file, s))
          IN /\ n >= 2 * self.max_sentence_length
             /\ n % self.max_sentence_length = 0
             /\ Cardinality(InstIdx(origin, s)) = n \div self.max_sentence_length

====
